---- MODULE Spec2Model ----
(***************************************************************************)
(* Mandelbrot / Julia sketches for a 16x16 FastLED matrix.                 *)
(*                                                                         *)
(* Four sketches share one shape: loop() = resize(); mandel(); show(),     *)
(* with two time-gated palette steps in the palette sketches.              *)
(*                                                                         *)
(*   "Mandelbrot"         src/unnamed/part_001                             *)
(*   "MandelbrotMinimal"  src/Mandelbrot-minimal/Mandelbrot-minimal.ino    *)
(*   "Julia"              src/unnamed/part_000                             *)
(*   "JuliaPalette"       src/Julia-palette/Julia-palette.ino              *)
(*                                                                         *)
(* Numbers.  A float is modelled as a fixed-point number: the integer n    *)
(* stands for n / Scale.  Sums and differences are exact, a product or a   *)
(* quotient is rounded to the nearest multiple of 1/Scale, as a float      *)
(* operation rounds its result to the nearest representable value.         *)
(***************************************************************************)
EXTENDS Integers, Sequences, FiniteSets, TLC

\* ------------------------------------------------------------------------
\* Bounds of the model
\* ------------------------------------------------------------------------

\* Units per 1.0 of the fixed-point representation of a float.
Scale == 1024

\* Every pass of loop() takes this many milliseconds.
FrameMs == 2500

\* loop() is followed until the millisecond clock passes this value.
MaxMillis == 7500

\* Number of distinct random target palettes drawn by the Mandelbrot sketch.
NumRandom == 1

\* A palette blend from one palette to another takes this many blend steps.
BlendLevels == 2

\* ------------------------------------------------------------------------
\* Fixed-point arithmetic
\* ------------------------------------------------------------------------

Abs(n) == IF n < 0 THEN -n ELSE n

Min(m, n) == IF m < n THEN m ELSE n

\* n / d rounded to the nearest integer (d > 0).
RoundDiv(n, d) == (2 * n + d) \div (2 * d)

\* The float nearest to the literal num / den.
Fx(num, den) == RoundDiv(num * Scale, den)

\* float * float
FMul(a, b) == RoundDiv(a * b, Scale)

\* ------------------------------------------------------------------------
\* Program constants
\* ------------------------------------------------------------------------

Sketches == {"Mandelbrot", "MandelbrotMinimal", "Julia", "JuliaPalette"}

matrixWidth == 16
matrixHeight == 16
matrixSerpentineLayout == TRUE

NUM_LEDS == matrixWidth * matrixHeight

\* int maxIterations = 15
maxIterations == 15

\* float maxCalc = 16.0 (uint8_t 16 in Julia-palette, promoted in the comparison)
maxCalc == Fx(16, 1)

\* 1 / zoomAdj, zoomAdj = .0016
zoomAdjInv == 625

xadj == Fx(0, 1)
yadj == Fx(1, 1000)

IsMandelbrotMode(sk) == sk \in {"Mandelbrot", "MandelbrotMinimal"}

HasPalette(sk) == sk \in {"Mandelbrot", "JuliaPalette"}

\* ------------------------------------------------------------------------
\* Coordinate mapper: XY()
\* ------------------------------------------------------------------------

\* XY with the column parity selecting the direction (a plausible slip).
XYofColumnParity(x, y, w, serp) ==
    LET x8 == x % 256
        y8 == y % 256
    IN  IF ~serp THEN ((y8 * w) + x8) % 65536
        ELSE IF x8 % 2 = 1
             THEN ((y8 * w) + (((w - 1) - x8) % 256)) % 65536
             ELSE ((y8 * w) + x8) % 65536

\* XY with reverseX one too large (a plausible slip).
XYofReverseOffByOne(x, y, w, serp) ==
    LET x8 == x % 256
        y8 == y % 256
    IN  IF ~serp THEN ((y8 * w) + x8) % 65536
        ELSE IF y8 % 2 = 1
             THEN ((y8 * w) + ((w - x8) % 256)) % 65536
             ELSE ((y8 * w) + x8) % 65536

\* XY with reverseX taken from y (a plausible slip).
XYofReverseByRow(x, y, w, serp) ==
    LET x8 == x % 256
        y8 == y % 256
    IN  IF ~serp THEN ((y8 * w) + x8) % 65536
        ELSE IF y8 % 2 = 1
             THEN ((y8 * w) + ((w - 1 - y8) % 256)) % 65536
             ELSE ((y8 * w) + x8) % 65536

\* uint16_t XY(uint8_t x, uint8_t y) for a matrix of width w.
XYof(x, y, w, serp) ==
    LET x8 == x % 256
        y8 == y % 256
    IN  IF ~serp THEN ((y8 * w) + x8) % 65536
        ELSE IF y8 % 2 = 1
             THEN LET reverseX == ((w - 1) - x8) % 256
                  IN  ((y8 * w) + reverseX) % 65536
             ELSE ((y8 * w) + x8) % 65536

XY(x, y) == XYof(x, y, matrixWidth, matrixSerpentineLayout)

\* ------------------------------------------------------------------------
\* Escape-time evaluator: the while loop of mandel()
\* ------------------------------------------------------------------------

\* The loop test with >= in place of > (a plausible slip).
EscapedAtOrAbove(a, b, calc) == FMul(a, a) + FMul(b, b) >= calc

\* len > maxCalc
\* The classic bail-out of 4 written into the test, where the code reads maxCalc.
EscapedBailoutFour(a, b, calc) == FMul(a, a) + FMul(b, b) > Fx(4, 1)

Escaped(a, b, calc) == FMul(a, a) + FMul(b, b) > calc

\* b = 2*a*b + c_im
\* The imaginary part without the factor 2 (a plausible slip).
NextBNoDouble(a, b, cim) == FMul(a, b) + cim

NextB(a, b, cim) == FMul(2 * a, b) + cim

\* The update with the additive constant dropped (a plausible slip).
NextANoConstant(a, b, cre) == FMul(a, a) - FMul(b, b)

\* a = aa - bb + c_re
NextA(a, b, cre) == FMul(a, a) - FMul(b, b) + cre

\* The loop running one pass too many (a plausible slip).
LoopContinuesOffByOne(iter, maxIter) == iter <= maxIter

\* while (iter < maxIterations)
\* The loop bound one too small.
LoopContinuesStopsEarly(iter, maxIter) == iter < maxIter - 1

LoopContinues(iter, maxIter) == iter < maxIter

RECURSIVE EscapeLoop(_, _, _, _, _, _, _)
\* The whole loop from (a, b, iter): the final iter.  The new a and b are
\* computed once per pass, as the assignments of the loop body do.
EscapeLoop(a, b, iter, cre, cim, maxIter, calc) ==
    IF ~LoopContinues(iter, maxIter) THEN iter
    ELSE IF Escaped(a, b, calc) THEN iter
    ELSE CHOOSE r \in {EscapeLoop(na, nb, iter + 1, cre, cim, maxIter, calc) :
                          na \in {NextA(a, b, cre)}, nb \in {NextB(a, b, cim)}} : TRUE

\* The iteration count of the cell at coordinate (x, y): a = x, b = y, and the
\* additive constant is (x, y) in Mandelbrot mode, (re, im) in Julia mode.
CellIter(sk, x, y, re, im, maxIter, calc) ==
    IF IsMandelbrotMode(sk)
    THEN EscapeLoop(x, y, 0, x, y, maxIter, calc)
    ELSE EscapeLoop(x, y, 0, re, im, maxIter, calc)

\* ------------------------------------------------------------------------
\* Colour mapper
\* ------------------------------------------------------------------------

\* A colour is <<r, g, b>>, each channel in 0..255.
Black == <<0, 0, 0>>

\* scale8(i, scale), FastLED's fixed scaling
scale8(i, sc) == (i * (1 + sc)) \div 256

\* qadd8: saturating add
qadd8(a, b) == Min(a + b, 255)

\* CHSV(hue, 255, 255) converted to RGB: a fully saturated, full-value colour
\* of the hue wheel; never black.
HueRGB(h) ==
    IF h < 85 THEN <<255 - 3 * h, 3 * h, 0>>
    ELSE IF h < 170 THEN <<0, 255 - 3 * (h - 85), 3 * (h - 85)>>
    ELSE <<3 * (h - 170), 0, 255 - 3 * (h - 170)>>

\* Palettes are named by a number: 0 is the all-black palette of a
\* default-constructed (zero-initialised) global CRGBPalette16, 1..7 are
\* palettes[0..6] of Julia-palette (7 = RainbowColors_p), and the numbers
\* above 7 are the random palettes the Mandelbrot sketch draws.
BlackPalette == 0
PartyPalette == 1
RainbowPalette == 7
NumPresets == 7

PaletteIds == 0 .. (NumPresets + NumRandom)

\* Entry `index` of palette p, linearly blended.
PresetRGB(p, index) ==
    IF p = BlackPalette THEN Black
    ELSE IF p = RainbowPalette THEN HueRGB(index)
    ELSE HueRGB((index + 29 * p) % 256)

\* A CRGBPalette16 under blending: `level` blend steps on the way from
\* palette `base` to palette `toward`.
PurePalette(p) == [base |-> p, toward |-> p, level |-> 0]

MixChannel(c1, c2, level) == (c1 * (BlendLevels - level) + c2 * level) \div BlendLevels

PaletteRGB(pal, index) ==
    LET c1 == PresetRGB(pal.base, index)
        c2 == PresetRGB(pal.toward, index)
    IN  <<MixChannel(c1[1], c2[1], pal.level),
          MixChannel(c1[2], c2[2], pal.level),
          MixChannel(c1[3], c2[3], pal.level)>>

\* nblendPaletteTowardPalette(current, target, maxChanges)
BlendToward(pal, target) ==
    IF pal.level = 0 /\ pal.base = target THEN pal
    ELSE IF pal.level + 1 >= BlendLevels THEN PurePalette(target)
    ELSE [base |-> pal.base, toward |-> target, level |-> pal.level + 1]

\* ColorFromPalette(pal, index, brightness, LINEARBLEND)
ColorFromPalette(pal, index, brightness) ==
    LET c == PaletteRGB(pal, index)
    IN  IF brightness = 255 THEN c
        ELSE <<scale8(c[1], brightness), scale8(c[2], brightness),
               scale8(c[3], brightness)>>

\* What the colour mapper does with an iteration count: <<kind, index,
\* brightness>>, kind "black" for CRGB::Black, "palette" for a palette lookup,
\* "hsv" for a direct hue.
BlackExpr == <<"black", 0, 0>>

\* The colour mapper without the in-set test (a plausible slip).
ColorExprNoBlack(sk, iter, maxIter) ==
    LET index == IF maxIter = 0 THEN 0 ELSE ((iter * 255) \div maxIter) % 256
    IN  IF sk = "Mandelbrot" THEN <<"palette", index, (255 - iter) % 256>>
        ELSE IF sk = "JuliaPalette" THEN <<"palette", index, 255>>
        ELSE <<"hsv", index, 255>>

\* if (iter == maxIterations) Black else palette / hue lookup
ColorExpr(sk, iter, maxIter) ==
    IF iter = maxIter THEN BlackExpr
    ELSE LET index == ((iter * 255) \div maxIter) % 256
         IN  IF sk = "Mandelbrot" THEN <<"palette", index, (255 - iter) % 256>>
             ELSE IF sk = "JuliaPalette" THEN <<"palette", index, 255>>
             ELSE <<"hsv", index, 255>>

ExprRGB(expr, pal) ==
    IF expr[1] = "black" THEN Black
    ELSE IF expr[1] = "hsv" THEN HueRGB(expr[2])
    ELSE ColorFromPalette(pal, expr[2], expr[3])

\* ------------------------------------------------------------------------
\* The sweep of mandel()
\* ------------------------------------------------------------------------

\* A frame is described by cfg: the sketch, the matrix (w, h, serp), the
\* window (xmin, ymin, dx, dy), the Julia constant (re, im), the loop
\* parameters (maxIter, calc) and the current palette (pal).  A buffer is
\* [leds, iters, mapped]: the frame buffer, and per buffer index the
\* iteration count and colour-mapper decision of the last write to it.

CellX(cfg, i) == cfg.xmin + i * cfg.dx

CellY(cfg, j) == cfg.ymin + j * cfg.dy

\* The body of the inner for loop for cell (i, j) at coordinate (x, y).
WriteCell(buf, cfg, i, j, x, y) ==
    LET iter == CellIter(cfg.sk, x, y, cfg.re, cfg.im, cfg.maxIter, cfg.calc)
        expr == ColorExpr(cfg.sk, iter, cfg.maxIter)
        at   == XYof(i, j, cfg.w, cfg.serp)
    IN  IF at \in DOMAIN buf.leds
        THEN [leds   |-> [buf.leds EXCEPT ![at] = ExprRGB(expr, cfg.pal)],
              iters  |-> [buf.iters EXCEPT ![at] = iter],
              mapped |-> [buf.mapped EXCEPT ![at] = expr]]
        ELSE buf

\* The number k = j * w + i of the last cell (i, j) of the sweep that XY()
\* maps to buffer index n, -1 when no cell is mapped to it.  XY(x, y) lies in
\* y * w .. y * w + w - 1, so only the cells of row n \div w can be mapped to n.
LastCell(n, w, serp) ==
    LET row == n \div w
        ks  == {k \in row * w .. row * w + w - 1 : XYof(k % w, row, w, serp) = n}
    IN  IF ks = {} THEN -1 ELSE CHOOSE k \in ks : \A k2 \in ks : k2 <= k

\* The two nested for loops of mandel() over the whole matrix: every buffer
\* index holds what the last cell mapped to it wrote, and keeps what it held
\* when no cell is mapped to it.
SweepIters(cfg, old) ==
    [n \in DOMAIN old |->
        LET k == LastCell(n, cfg.w, cfg.serp)
        IN  IF k < 0 THEN old[n]
            ELSE CellIter(cfg.sk, CellX(cfg, k % cfg.w), CellY(cfg, k \div cfg.w),
                          cfg.re, cfg.im, cfg.maxIter, cfg.calc)]

SweepMapped(cfg, its, old) ==
    [n \in DOMAIN old |->
        IF LastCell(n, cfg.w, cfg.serp) < 0 THEN old[n]
        ELSE ColorExpr(cfg.sk, its[n], cfg.maxIter)]

SweepLeds(cfg, exprs, old) ==
    [n \in DOMAIN old |->
        IF LastCell(n, cfg.w, cfg.serp) < 0 THEN old[n]
        ELSE ExprRGB(exprs[n], cfg.pal)]

\* blur2d(leds, w, h, amount): blurRows then blurColumns.  Each pixel keeps
\* 255 - amount of itself and receives amount / 2 of each neighbour.
BlurChannel(c, before, after, amount) ==
    qadd8(qadd8(scale8(c, 255 - amount), scale8(before, amount \div 2)),
          scale8(after, amount \div 2))

BlurPixel(p, before, after, amount) ==
    <<BlurChannel(p[1], before[1], after[1], amount),
      BlurChannel(p[2], before[2], after[2], amount),
      BlurChannel(p[3], before[3], after[3], amount)>>

\* blurRows works on rows of the buffer itself: leds + row * width.
blurRows(l, w, h, amount) ==
    [n \in DOMAIN l |->
        BlurPixel(l[n],
                  IF n % w > 0 THEN l[n - 1] ELSE Black,
                  IF n % w < w - 1 THEN l[n + 1] ELSE Black,
                  amount)]

\* blurColumns walks each column through XY().
blurColumns(l, w, h, serp, amount) ==
    [n \in DOMAIN l |->
        LET k == LastCell(n, w, serp)
        IN  IF k < 0 THEN l[n]
            ELSE BlurPixel(l[n],
                           IF k \div w > 0
                           THEN l[XYof(k % w, (k \div w) - 1, w, serp)] ELSE Black,
                           IF k \div w < h - 1
                           THEN l[XYof(k % w, (k \div w) + 1, w, serp)] ELSE Black,
                           amount)]

blurAmount == 64

blur2d(l, w, h, serp, amount) ==
    blurColumns(blurRows(l, w, h, amount), w, h, serp, amount)

\* What follows the sweep in mandel(): blur2d in the Mandelbrot sketch only.
AfterSweep(l, cfg) ==
    IF cfg.sk = "Mandelbrot" THEN blur2d(l, cfg.w, cfg.h, cfg.serp, blurAmount)
    ELSE l

\* ------------------------------------------------------------------------
\* State
\* ------------------------------------------------------------------------

VARIABLES
    sketch,          \* which of the four sketches runs
    pc,              \* the statement of loop() that runs next
    now,             \* millis()
    blendTimer,      \* EVERY_N_MILLISECONDS: time of the last trigger, -1 before construction
    targetTimer,     \* EVERY_N_SECONDS: second of the last trigger, -1 before construction
    loops,           \* showfps(): static int loops
    lastMillis,      \* showfps(): static long lastMillis
    palette_num,     \* Julia-palette: static uint8_t palette_num
    currentPalette,
    targetPalette,
    reAl, imAg, zoOm,
    xmin, ymin, xmax, ymax,
    dx, dy,
    leds,            \* CRGB leds[NUM_LEDS]
    iters,           \* per buffer index, the iteration count last written there (-1: none)
    mapped,          \* per buffer index, the colour mapper's decision last written there
    runs,            \* per stepwise sweep that returned and was recorded: its inputs and its counts
    order,           \* the steps of the current pass of loop(), in the order they ran
    s_pc,            \* position in a stepwise sweep of mandel()
    width, height, serpentine,   \* the matrix of a stepwise sweep
    i, j, x, y,      \* the locals of mandel()'s two for loops
    writes,          \* per buffer index, the number of writes in the current sweep
    stray,           \* the indexes outside the buffer that XY() produced in the sweep
    e_pc,            \* position in a stepwise run of the while loop
    a, b, iter,      \* the locals of the while loop
    maxIter, calc,   \* maxIterations and maxCalc as the loop reads them
    hist             \* the iterates <<a, b>> computed so far, the start value first

loopVars == <<sketch, pc, now, blendTimer, targetTimer, loops, lastMillis,
              palette_num, currentPalette, targetPalette, reAl, imAg, zoOm,
              xmin, ymin, xmax, ymax, dx, dy, order>>

frameVars == <<leds, iters, mapped, runs>>

sweepVars == <<s_pc, width, height, serpentine, i, j, x, y, writes, stray>>

evalVars == <<e_pc, a, b, iter, maxIter, calc, hist>>

vars == <<loopVars, frameVars, sweepVars, evalVars>>

\* ------------------------------------------------------------------------
\* Window animator: resize()
\* ------------------------------------------------------------------------

\* The values sin() is taken to return: its extremes, its zero and the
\* values half way.
SinValues == {(k * Scale) \div 2 : k \in -2 .. 2}

\* Where two sines are taken in one call: the extremes and the zero of each.
SinExtremes == {-Scale, 0, Scale}

reAlJulia == Fx(-94299, 100000)
imAgJulia == Fx(3162, 10000)

\* The zoom without abs() (a plausible slip).
ZoomOfNoAbs(s) == 5000 * s + Fx(200, 1)

\* zoOm = 5000. * abs(sin(millis()/2000.)) + 200.
ZoomOf(s) == 5000 * Abs(s) + Fx(200, 1)

\* 1./zoOm/zoomAdj, computed in double and so rounded once
HalfExtent(zoom) == RoundDiv(zoomAdjInv * Scale * Scale, zoom)

\* xmin, xmax, ymin, ymax of a sketch for centre (re, im) and zoom
WindowOf(sk, re, im, zoom) ==
    IF sk = "Julia"
    THEN [xmin |-> Fx(-12, 10), xmax |-> Fx(12, 10),
          ymin |-> Fx(-8, 10), ymax |-> Fx(1, 1)]
    ELSE IF sk = "JuliaPalette"
    THEN [xmin |-> Fx(-5, 10), xmax |-> Fx(5, 10),
          ymin |-> Fx(-5, 10), ymax |-> Fx(5, 10)]
    ELSE [xmin |-> re - HalfExtent(zoom) + xadj,
          xmax |-> re + HalfExtent(zoom) + xadj,
          ymin |-> im - HalfExtent(zoom) + yadj,
          ymax |-> im + HalfExtent(zoom) + yadj]

\* dx = (xmax - xmin) / (matrixWidth)
StepOf(lo, hi, n) == RoundDiv(hi - lo, n)

\* ------------------------------------------------------------------------
\* loop()
\* ------------------------------------------------------------------------

\* The steps in which loop() evaluates showfps before mandel (a plausible slip).
StepsOfShowFirst(sk) ==
    IF sk = "Mandelbrot"
    THEN <<"resize", "show", "mandel", "showfps", "blend", "target">>
    ELSE IF sk = "JuliaPalette"
    THEN <<"blend", "target", "resize", "show", "mandel">>
    ELSE <<"resize", "show", "mandel">>

\* The statements of loop(), in program order.
StepsOf(sk) ==
    IF sk = "Mandelbrot"
    THEN <<"resize", "mandel", "showfps", "blend", "target", "show">>
    ELSE IF sk = "JuliaPalette"
    THEN <<"blend", "target", "resize", "mandel", "show">>
    ELSE <<"resize", "mandel", "show">>

PositionOf(sk, step) == CHOOSE n \in 1 .. Len(StepsOf(sk)) : StepsOf(sk)[n] = step

\* The statement after `step`; after the last one loop() is entered again.
Following(sk, step) ==
    IF PositionOf(sk, step) = Len(StepsOf(sk)) THEN StepsOf(sk)[1]
    ELSE StepsOf(sk)[PositionOf(sk, step) + 1]

\* The record of the pass, with `step` added; a new pass starts a new record.
Ran(sk, step) == IF step = StepsOf(sk)[1] THEN <<step>> ELSE Append(order, step)

BlendPeriod(sk) == IF sk = "Mandelbrot" THEN 100 ELSE 10

TargetPeriod == 5

NumPalettes == 7

BlackFrame == [n \in 0 .. NUM_LEDS - 1 |-> Black]

NoIters == [n \in 0 .. NUM_LEDS - 1 |-> -1]

NoMapped == [n \in 0 .. NUM_LEDS - 1 |-> BlackExpr]

SweepOff ==
    /\ s_pc = "off"
    /\ width = matrixWidth /\ height = matrixHeight
    /\ serpentine = matrixSerpentineLayout
    /\ i = 0 /\ j = 0 /\ x = 0 /\ y = 0
    /\ writes = [n \in 0 .. NUM_LEDS - 1 |-> 0]
    /\ stray = {}

EvalOff ==
    /\ e_pc = "off"
    /\ a = 0 /\ b = 0 /\ iter = 0
    /\ maxIter = maxIterations /\ calc = maxCalc
    /\ hist = <<>>

\* The globals as the sketch's definitions initialise them.
Init ==
    /\ sketch \in Sketches
    /\ pc = StepsOf(sketch)[1]
    /\ now = 0
    /\ blendTimer = -1 /\ targetTimer = -1
    /\ loops = 0 /\ lastMillis = 0
    /\ palette_num = 0
    /\ currentPalette = PurePalette(IF sketch = "Mandelbrot" THEN RainbowPalette
                                    ELSE BlackPalette)
    /\ targetPalette = (IF sketch = "JuliaPalette" THEN PartyPalette ELSE BlackPalette)
    /\ reAl = (IF IsMandelbrotMode(sketch) THEN Fx(-5, 10) ELSE 0)
    /\ imAg = (IF sketch = "Mandelbrot" THEN Fx(2, 10)
               ELSE IF sketch = "MandelbrotMinimal" THEN Fx(1, 10) ELSE 0)
    /\ zoOm = (IF sketch = "Mandelbrot" THEN Fx(452, 1)
               ELSE IF sketch = "MandelbrotMinimal" THEN Fx(550, 1) ELSE 0)
    /\ xmin = 0 /\ ymin = 0 /\ xmax = 0 /\ ymax = 0
    /\ dx = 0 /\ dy = 0
    /\ leds = BlackFrame /\ iters = NoIters /\ mapped = NoMapped
    /\ runs = <<>>
    /\ order = <<>>
    /\ SweepOff
    /\ EvalOff

\* EVERY_N_MILLISECONDS(period) { nblendPaletteTowardPalette(...) }
PaletteBlend ==
    /\ pc = "blend"
    /\ pc' = Following(sketch, "blend")
    /\ order' = Ran(sketch, "blend")
    /\ IF blendTimer = -1
       THEN blendTimer' = now /\ UNCHANGED currentPalette
       ELSE IF now - blendTimer >= BlendPeriod(sketch)
       THEN /\ blendTimer' = now
            /\ currentPalette' = BlendToward(currentPalette, targetPalette)
       ELSE UNCHANGED <<blendTimer, currentPalette>>
    /\ UNCHANGED <<sketch, now, targetTimer, loops, lastMillis, palette_num,
                   targetPalette, reAl, imAg, zoOm, xmin, ymin, xmax, ymax, dx, dy>>
    /\ UNCHANGED <<frameVars, sweepVars, evalVars>>

\* EVERY_N_SECONDS(5) { change the target palette }
PaletteTarget ==
    /\ pc = "target"
    /\ pc' = Following(sketch, "target")
    /\ order' = Ran(sketch, "target")
    /\ IF targetTimer = -1
       THEN targetTimer' = now \div 1000 /\ UNCHANGED <<palette_num, targetPalette>>
       ELSE IF (now \div 1000) - targetTimer >= TargetPeriod
       THEN /\ targetTimer' = now \div 1000
            /\ IF sketch = "JuliaPalette"
               THEN /\ palette_num' = (1 + palette_num) % NumPalettes
                    /\ targetPalette' = palette_num' + 1
               ELSE /\ \E r \in (NumPresets + 1) .. (NumPresets + NumRandom) :
                          targetPalette' = r
                    /\ UNCHANGED palette_num
       ELSE UNCHANGED <<targetTimer, palette_num, targetPalette>>
    /\ UNCHANGED <<sketch, now, blendTimer, loops, lastMillis, currentPalette,
                   reAl, imAg, zoOm, xmin, ymin, xmax, ymax, dx, dy>>
    /\ UNCHANGED <<frameVars, sweepVars, evalVars>>

\* resize()
Resize ==
    /\ pc = "resize"
    /\ pc' = Following(sketch, "resize")
    /\ order' = Ran(sketch, "resize")
    /\ IF sketch = "Mandelbrot"
       THEN /\ \E s \in SinValues : zoOm' = ZoomOf(s)
            /\ reAl' = reAlJulia
            /\ imAg' = imAgJulia
       ELSE IF sketch = "MandelbrotMinimal"
       THEN UNCHANGED <<zoOm, reAl, imAg>>
       ELSE /\ \E s1 \in SinExtremes, s2 \in SinExtremes :
                  /\ reAl' = reAlJulia + RoundDiv(s1, 20)
                  /\ imAg' = imAgJulia + RoundDiv(s2, 20)
            /\ UNCHANGED zoOm
    /\ LET win == WindowOf(sketch, reAl', imAg', zoOm')
       IN  /\ xmin' = win.xmin /\ xmax' = win.xmax
           /\ ymin' = win.ymin /\ ymax' = win.ymax
           /\ dx' = StepOf(win.xmin, win.xmax, matrixWidth)
           /\ dy' = StepOf(win.ymin, win.ymax, matrixHeight)
    /\ UNCHANGED <<sketch, now, blendTimer, targetTimer, loops, lastMillis,
                   palette_num, currentPalette, targetPalette>>
    /\ UNCHANGED <<frameVars, sweepVars, evalVars>>

\* The frame description mandel() reads from the globals.
FrameCfg ==
    [sk |-> sketch, w |-> width, h |-> height, serp |-> serpentine,
     xmin |-> xmin, ymin |-> ymin, dx |-> dx, dy |-> dy,
     re |-> reAl, im |-> imAg, maxIter |-> maxIter, calc |-> calc,
     pal |-> currentPalette]

\* What the iteration counts of a frame are computed from: the matrix, the
\* window, the additive constant of the Julia sketches, the bound, the radius.
FrameInputs ==
    [sk |-> sketch, w |-> width, h |-> height, serp |-> serpentine,
     xmin |-> xmin, ymin |-> ymin, dx |-> dx, dy |-> dy,
     re |-> (IF IsMandelbrotMode(sketch) THEN 0 ELSE reAl),
     im |-> (IF IsMandelbrotMode(sketch) THEN 0 ELSE imAg),
     maxIter |-> maxIter, calc |-> calc]

\* mandel(): the whole sweep, then the blur where the sketch has one.  The
\* sweep is what takes the time of a pass.
Mandel ==
    /\ pc = "mandel"
    /\ now + FrameMs <= MaxMillis
    /\ now' = now + FrameMs
    /\ pc' = Following(sketch, "mandel")
    /\ order' = Ran(sketch, "mandel")
    /\ iters' = SweepIters(FrameCfg, iters)
    /\ mapped' = SweepMapped(FrameCfg, iters', mapped)
    /\ leds' = AfterSweep(SweepLeds(FrameCfg, mapped', leds), FrameCfg)
    /\ UNCHANGED runs
    /\ UNCHANGED <<sketch, blendTimer, targetTimer, loops, lastMillis, palette_num,
                   currentPalette, targetPalette, reAl, imAg, zoOm,
                   xmin, ymin, xmax, ymax, dx, dy>>
    /\ UNCHANGED <<sweepVars, evalVars>>

\* showfps()
ShowFps ==
    /\ pc = "showfps"
    /\ pc' = Following(sketch, "showfps")
    /\ order' = Ran(sketch, "showfps")
    /\ IF now - lastMillis > 1000
       THEN lastMillis' = now /\ loops' = 0
       ELSE loops' = loops + 1 /\ UNCHANGED lastMillis
    /\ UNCHANGED <<sketch, now, blendTimer, targetTimer, palette_num,
                   currentPalette, targetPalette, reAl, imAg, zoOm,
                   xmin, ymin, xmax, ymax, dx, dy>>
    /\ UNCHANGED <<frameVars, sweepVars, evalVars>>

\* FastLED.show()
Show ==
    /\ pc = "show"
    /\ pc' = Following(sketch, "show")
    /\ order' = Ran(sketch, "show")
    /\ UNCHANGED <<sketch, now, blendTimer, targetTimer, loops, lastMillis,
                   palette_num, currentPalette, targetPalette, reAl, imAg, zoOm,
                   xmin, ymin, xmax, ymax, dx, dy>>
    /\ UNCHANGED <<frameVars, sweepVars, evalVars>>

Next ==
    \/ PaletteBlend
    \/ PaletteTarget
    \/ Resize
    \/ Mandel
    \/ ShowFps
    \/ Show

Spec == Init /\ [][Next]_vars

\* ------------------------------------------------------------------------
\* The while loop of mandel(), pass by pass, for one cell
\* ------------------------------------------------------------------------

\* Cell coordinates tried: the multiples of 1/2 up to CoordMax / 2.
CoordMax == 6

CoordValues == {Fx(k, 2) : k \in -CoordMax .. CoordMax}

\* Iteration bounds tried: 0 .. MaxIterBound, and the sketches' own bound.
MaxIterBound == 4

MaxIterValues == (0 .. MaxIterBound) \cup {maxIterations}

\* Escape radii (squared) tried.
CalcValues == {0, Fx(4, 1), maxCalc}

\* Julia constants tried.
JuliaConstants == {<<reAlJulia, imAgJulia>>, <<0, 0>>}

\* The globals of a sketch that is not inside loop().
LoopOff ==
    /\ pc = "off"
    /\ now = 0
    /\ blendTimer = -1 /\ targetTimer = -1
    /\ loops = 0 /\ lastMillis = 0
    /\ palette_num = 0
    /\ targetPalette = BlackPalette
    /\ zoOm = 0
    /\ order = <<>>

\* The additive constant of the update: the cell's own coordinate in the
\* Mandelbrot sketches, the globals reAl and imAg in the Julia sketches.
ConstRe == IF IsMandelbrotMode(sketch) THEN x ELSE reAl

ConstIm == IF IsMandelbrotMode(sketch) THEN y ELSE imAg

InitEval ==
    /\ sketch \in Sketches
    /\ LoopOff
    /\ currentPalette = PurePalette(BlackPalette)
    /\ xmin = 0 /\ ymin = 0 /\ xmax = 0 /\ ymax = 0 /\ dx = 0 /\ dy = 0
    /\ leds = BlackFrame /\ iters = NoIters /\ mapped = NoMapped
    /\ runs = <<>>
    /\ s_pc = "off"
    /\ width = matrixWidth /\ height = matrixHeight
    /\ serpentine = matrixSerpentineLayout
    /\ i = 0 /\ j = 0
    /\ x \in CoordValues /\ y \in CoordValues
    /\ writes = [n \in 0 .. NUM_LEDS - 1 |-> 0]
    /\ stray = {}
    /\ \E c \in JuliaConstants :
          IF IsMandelbrotMode(sketch) THEN reAl = 0 /\ imAg = 0 /\ c = <<0, 0>>
          ELSE reAl = c[1] /\ imAg = c[2]
    /\ maxIter \in MaxIterValues
    /\ calc \in CalcValues
    \* float a = x; float b = y; int iter = 0;
    /\ e_pc = "loop"
    /\ a = x /\ b = y /\ iter = 0
    /\ hist = << <<x, y>> >>

\* One pass of the while body: the test and break, or the update.
EvalPass ==
    /\ e_pc = "loop"
    /\ LoopContinues(iter, maxIter)
    /\ IF Escaped(a, b, calc)
       THEN /\ e_pc' = "done"
            /\ UNCHANGED <<a, b, iter, hist>>
       ELSE /\ b' = NextB(a, b, ConstIm)
            /\ a' = NextA(a, b, ConstRe)
            /\ iter' = iter + 1
            /\ hist' = Append(hist, <<a', b'>>)
            /\ UNCHANGED e_pc
    /\ UNCHANGED <<maxIter, calc>>
    /\ UNCHANGED <<loopVars, frameVars, sweepVars>>

\* The while condition fails.
EvalExit ==
    /\ e_pc = "loop"
    /\ ~LoopContinues(iter, maxIter)
    /\ e_pc' = "done"
    /\ UNCHANGED <<a, b, iter, maxIter, calc, hist>>
    /\ UNCHANGED <<loopVars, frameVars, sweepVars>>

NextEval ==
    \/ EvalPass
    \/ EvalExit

SpecEval == InitEval /\ [][NextEval]_vars


\* ------------------------------------------------------------------------
\* mandel(), cell by cell
\* ------------------------------------------------------------------------

\* Matrices swept: every w x h up to MaxSmall, and the sketches' 16 x 16.
MaxSmall == 4

Dims == ((1 .. MaxSmall) \X (1 .. MaxSmall)) \cup {<<matrixWidth, matrixHeight>>}

\* The window x in [-0.5, 0.5], y in [-0.5, 0.5].
UnitWindow ==
    [xmin |-> Fx(-5, 10), xmax |-> Fx(5, 10), ymin |-> Fx(-5, 10), ymax |-> Fx(5, 10)]

White == <<255, 255, 255>>

\* Palette contents swept with: all black, a preset, and a blend under way.
SweepPalettes ==
    {PurePalette(BlackPalette), PurePalette(RainbowPalette),
     BlendToward(PurePalette(RainbowPalette), PartyPalette)}

InitSweep ==
    /\ sketch \in Sketches
    /\ LoopOff
    /\ currentPalette \in (IF HasPalette(sketch) THEN SweepPalettes
                          ELSE {PurePalette(BlackPalette)})
    /\ reAl = reAlJulia /\ imAg = imAgJulia
    /\ \E d \in Dims : width = d[1] /\ height = d[2]
    /\ serpentine \in BOOLEAN
    /\ \E win \in {UnitWindow, WindowOf(sketch, reAlJulia, imAgJulia, ZoomOf(0))} :
          /\ xmin = win.xmin /\ xmax = win.xmax
          /\ ymin = win.ymin /\ ymax = win.ymax
    /\ dx = StepOf(xmin, xmax, width)
    /\ dy = StepOf(ymin, ymax, height)
    /\ \E c \in {Black, White} : leds = [n \in 0 .. width * height - 1 |-> c]
    /\ iters = [n \in 0 .. width * height - 1 |-> -1]
    /\ runs = <<>>
    /\ mapped = [n \in 0 .. width * height - 1 |-> BlackExpr]
    /\ writes = [n \in 0 .. width * height - 1 |-> 0]
    /\ stray = {}
    /\ maxIter = maxIterations /\ calc = maxCalc
    \* float y = ymin; j = 0; float x = xmin; i = 0;
    /\ s_pc = "sweep"
    /\ i = 0 /\ j = 0 /\ x = xmin /\ y = ymin
    /\ e_pc = "off" /\ a = 0 /\ b = 0 /\ iter = 0 /\ hist = <<>>

\* The body of the inner for loop, and x += dx.
SweepCell ==
    /\ s_pc = "sweep"
    /\ j < height /\ i < width
    /\ LET buf == WriteCell([leds |-> leds, iters |-> iters, mapped |-> mapped],
                            FrameCfg, i, j, x, y)
           at  == XYof(i, j, width, serpentine)
       IN  /\ leds' = buf.leds /\ iters' = buf.iters /\ mapped' = buf.mapped
           /\ IF at \in DOMAIN writes
              THEN writes' = [writes EXCEPT ![at] = @ + 1] /\ UNCHANGED stray
              ELSE stray' = stray \cup {at} /\ UNCHANGED writes
    /\ x' = x + dx
    /\ i' = i + 1
    /\ UNCHANGED <<s_pc, width, height, serpentine, j, y, runs>>
    /\ UNCHANGED <<loopVars, evalVars>>

\* The row step written as ymin += dy (a plausible slip): the window moves.
SweepRowEndMovesWindow ==
    /\ s_pc = "sweep"
    /\ j < height /\ i >= width
    /\ ymin' = ymin + dy
    /\ y' = ymin'
    /\ j' = j + 1
    /\ x' = xmin
    /\ i' = 0
    /\ UNCHANGED <<s_pc, width, height, serpentine, writes, stray>>
    /\ UNCHANGED <<sketch, pc, now, blendTimer, targetTimer, loops, lastMillis,
                   palette_num, currentPalette, targetPalette, reAl, imAg, zoOm,
                   xmin, xmax, ymax, dx, dy, order>>
    /\ UNCHANGED <<frameVars, evalVars>>

\* The inner for loop ends: y += dy, and the next row starts at x = xmin.
SweepRowEnd ==
    /\ s_pc = "sweep"
    /\ j < height /\ i >= width
    /\ y' = y + dy
    /\ j' = j + 1
    /\ x' = xmin
    /\ i' = 0
    /\ UNCHANGED <<s_pc, width, height, serpentine, writes, stray>>
    /\ UNCHANGED <<loopVars, frameVars, evalVars>>

\* The outer for loop ends: the blur, where the sketch has one, and return.
SweepEnd ==
    /\ s_pc = "sweep"
    /\ j >= height
    /\ s_pc' = "done"
    /\ leds' = AfterSweep(leds, FrameCfg)
    /\ runs' = Append(runs, <<FrameInputs, iters>>)
    /\ UNCHANGED <<iters, mapped>>
    /\ UNCHANGED <<width, height, serpentine, i, j, x, y, writes, stray>>
    /\ UNCHANGED <<loopVars, evalVars>>

NextSweep ==
    \/ SweepCell
    \/ SweepRowEnd
    \/ SweepEnd

SpecSweep == InitSweep /\ [][NextSweep]_vars


\* ------------------------------------------------------------------------
\* Claims
\* ------------------------------------------------------------------------

\* ------------------------------------------------------------------------
\* mandel() called again on the same globals
\* ------------------------------------------------------------------------

\* The number of sweeps run one after the other.
MaxRuns == 2

\* mandel() is entered again: float y = ymin; j = 0; float x = xmin; i = 0.
\* The globals and the frame buffer are as the sweep before left them.
SweepAgain ==
    /\ s_pc = "done"
    /\ Len(runs) < MaxRuns
    /\ s_pc' = "sweep"
    /\ i' = 0 /\ j' = 0 /\ x' = xmin /\ y' = ymin
    /\ writes' = [n \in DOMAIN writes |-> 0]
    /\ stray' = {}
    /\ UNCHANGED <<width, height, serpentine>>
    /\ UNCHANGED <<loopVars, frameVars, evalVars>>

NextTwice ==
    \/ SweepCell
    \/ SweepRowEnd
    \/ SweepEnd
    \/ SweepAgain

SpecTwice == InitSweep /\ [][NextTwice]_vars

\* ------------------------------------------------------------------------
\* loop() with mandel() cell by cell
\* ------------------------------------------------------------------------

\* loop() calls mandel(): float y = ymin; j = 0; float x = xmin; i = 0.
MandelEnter ==
    /\ pc = "mandel"
    /\ s_pc # "sweep"
    /\ now + FrameMs <= MaxMillis
    /\ s_pc' = "sweep"
    /\ i' = 0 /\ j' = 0 /\ x' = xmin /\ y' = ymin
    /\ writes' = [n \in DOMAIN writes |-> 0]
    /\ stray' = {}
    /\ UNCHANGED <<width, height, serpentine>>
    /\ UNCHANGED <<loopVars, frameVars, evalVars>>

\* The outer for loop ends: the blur, where the sketch has one, and mandel()
\* returns to loop().
MandelReturn ==
    /\ pc = "mandel"
    /\ s_pc = "sweep"
    /\ j >= height
    /\ s_pc' = "done"
    /\ leds' = AfterSweep(leds, FrameCfg)
    /\ now' = now + FrameMs
    /\ pc' = Following(sketch, "mandel")
    /\ order' = Ran(sketch, "mandel")
    /\ UNCHANGED <<iters, mapped, runs>>
    /\ UNCHANGED <<width, height, serpentine, i, j, x, y, writes, stray>>
    /\ UNCHANGED <<sketch, blendTimer, targetTimer, loops, lastMillis, palette_num,
                   currentPalette, targetPalette, reAl, imAg, zoOm,
                   xmin, ymin, xmax, ymax, dx, dy>>
    /\ UNCHANGED evalVars

NextFrames ==
    \/ PaletteBlend
    \/ PaletteTarget
    \/ Resize
    \/ MandelEnter
    \/ SweepCell
    \/ SweepRowEnd
    \/ MandelReturn
    \/ ShowFps
    \/ Show

SpecFrames == Init /\ [][NextFrames]_vars

\* The loop of one cell and the loops of one frame.  Neither reads the frame
\* buffer or the palette, so a frame starts here from a dark buffer and the
\* palette the sketch is initialised with.
InitLoops ==
    \/ InitEval
    \/ /\ InitSweep
       /\ \A n \in DOMAIN leds : leds[n] = Black
       /\ currentPalette = PurePalette(IF sketch = "Mandelbrot" THEN RainbowPalette
                                       ELSE BlackPalette)

NextLoops ==
    \/ NextEval
    \/ NextSweep

SpecLoops == InitLoops /\ [][NextLoops]_vars

\* The buffer index the specification gives for cell (cx, cy) of a matrix w wide.
Expected(cx, cy, w, serp) ==
    IF serp /\ cy % 2 = 1 THEN cy * w + (w - 1 - cx) ELSE cy * w + cx

\* The matrix of the sketches: 16 x 16, serpentine.
SketchMatrix ==
    width = matrixWidth /\ height = matrixHeight /\ serpentine = matrixSerpentineLayout

\* C1: on the 16 x 16 serpentine matrix, XY() over the cells of the sweep is a
\* bijection onto 0..255: no index outside the buffer is ever produced, no
\* index is produced twice, and when the sweep is over every index has been
\* produced exactly once.
C1_XYBijection ==
    (s_pc # "off" /\ SketchMatrix) =>
        /\ DOMAIN writes = 0 .. 255
        /\ stray = {}
        /\ \A n \in DOMAIN writes : writes[n] <= 1
        /\ (s_pc = "done" => \A n \in DOMAIN writes : writes[n] = 1)

C1_Witness ==
    /\ s_pc = "done" /\ SketchMatrix
    /\ writes[255] = 1 /\ writes[240] = 1

\* C2: the index XY() produces for the cell being swept is y * width + x on
\* an even row and y * width + (width - 1 - x) on an odd row when the layout
\* is serpentine, and y * width + x on every row when it is not; every cell
\* swept so far was written at that index; for width 4 row 0 is 0,1,2,3 and
\* row 1 is 7,6,5,4.
C2_RowParity ==
    /\ (s_pc = "sweep" /\ i < width /\ j < height) =>
          XYof(i, j, width, serpentine) = Expected(i, j, width, serpentine)
    /\ s_pc = "sweep" =>
          \A cy \in 0 .. height - 1 : \A cx \in 0 .. width - 1 :
              (cy * width + cx < j * width + i) =>
                  writes[Expected(cx, cy, width, serpentine)] >= 1
    /\ [cx \in 0 .. 3 |-> XYof(cx, 0, 4, TRUE)] = [cx \in 0 .. 3 |-> cx]
    /\ [cx \in 0 .. 3 |-> XYof(cx, 1, 4, TRUE)] = [cx \in 0 .. 3 |-> 7 - cx]
    /\ [cx \in 0 .. 3 |-> XYof(cx, 1, 4, FALSE)] = [cx \in 0 .. 3 |-> 4 + cx]

C2_Witness ==
    /\ s_pc = "sweep" /\ serpentine /\ width = 4 /\ height = 2
    /\ j = 1 /\ i = 1
    /\ writes[7] = 1 /\ writes[6] = 0

\* The end-to-end scenario of C4: a Mandelbrot sketch, 16 x 16, the window
\* x in [-0.5, 0.5], y in [-0.5, 0.5], 15 iterations, radius squared 16.
UnitScenario ==
    /\ s_pc = "done"
    /\ IsMandelbrotMode(sketch)
    /\ width = 16 /\ height = 16
    /\ xmin = UnitWindow.xmin /\ xmax = UnitWindow.xmax
    /\ ymin = UnitWindow.ymin /\ ymax = UnitWindow.ymax
    /\ maxIter = 15 /\ calc = Fx(16, 1)

\* C4 as stated: the centre cell (8, 8) yields 15 and the corner cell (0, 0)
\* yields less than 15.
C4_Original ==
    UnitScenario =>
        /\ iters[XYof(8, 8, width, serpentine)] = 15
        /\ iters[XYof(0, 0, width, serpentine)] < 15

\* C4 amended: the centre cell (8, 8) yields 15, and so does the corner cell
\* (0, 0) at (-0.5, -0.5), a point of the set; a cell that does escape is
\* (15, 8) at (0.4375, 0), which yields 6.
C4_Amended ==
    UnitScenario =>
        /\ iters[XYof(8, 8, width, serpentine)] = 15
        /\ iters[XYof(0, 0, width, serpentine)] = 15
        /\ iters[XYof(15, 8, width, serpentine)] = 6

C4_Witness ==
    /\ UnitScenario
    /\ iters[XYof(0, 0, width, serpentine)] = 15
    /\ iters[XYof(15, 8, width, serpentine)] = 6

\* C7: in every sketch and with every palette, a cell whose iteration count is
\* maxIterations is assigned CRGB::Black, and a cell whose count is below
\* maxIterations is assigned the palette or hue lookup at index
\* iter * 255 / maxIterations (palette at brightness 255 - iter in Mandelbrot,
\* palette at brightness 255 in Julia-palette, a hue in the minimal sketches).
C7_InSetIsBlack ==
    s_pc = "sweep" =>
        \A n \in DOMAIN iters :
            /\ iters[n] = maxIter => (mapped[n] = BlackExpr /\ leds[n] = Black)
            /\ (iters[n] >= 0 /\ iters[n] < maxIter) =>
                  /\ mapped[n][1] = (IF HasPalette(sketch) THEN "palette" ELSE "hsv")
                  /\ mapped[n][2] = (iters[n] * 255) \div maxIter
                  /\ mapped[n][3] = (IF sketch = "Mandelbrot" THEN 255 - iters[n] ELSE 255)

C7_Witness ==
    /\ s_pc = "sweep" /\ j = height
    /\ sketch = "JuliaPalette"
    /\ currentPalette = PurePalette(RainbowPalette)
    /\ \E n \in DOMAIN iters : iters[n] = maxIter /\ leds[n] = Black
    /\ \E n \in DOMAIN iters : iters[n] < maxIter /\ mapped[n][1] = "palette" /\ leds[n] # Black

\* Whether iterate p lies strictly beyond the escape radius (squared) r.
Beyond(p, r) == FMul(p[1], p[1]) + FMul(p[2], p[2]) > r

\* The evaluator has returned for a cell of a Mandelbrot sketch, radius 16.
MandelbrotResult ==
    e_pc = "done" /\ IsMandelbrotMode(sketch) /\ calc = Fx(16, 1)

\* C3 as stated: in Mandelbrot mode with radius squared 16, every coordinate
\* with |c| > 2 and every maxIterations >= 1 give a result strictly below
\* maxIterations.
C3_Original ==
    (MandelbrotResult /\ x * x + y * y > 4 * Scale * Scale /\ maxIter >= 1) =>
        iter < maxIter

\* C3 amended: in Mandelbrot mode with radius squared 16, every coordinate
\* with |c|^2 >= 5 gives a result of at most 2, hence strictly below
\* maxIterations whenever maxIterations >= 3; c = (3, 0) gives the result 1 for
\* every maxIterations >= 1, which is below maxIterations only from 2 on.
C3_Amended ==
    /\ (MandelbrotResult /\ x * x + y * y >= 5 * Scale * Scale) =>
          /\ iter <= 2
          /\ maxIter >= 3 => iter < maxIter
    /\ (MandelbrotResult /\ x = Fx(3, 1) /\ y = 0 /\ maxIter >= 1) => iter = 1

C3_Witness ==
    /\ MandelbrotResult
    /\ x = Fx(3, 1) /\ y = 0
    /\ maxIter = 1 /\ iter = 1
    /\ Beyond(hist[2], calc)

\* C5 as stated: the result is in 0 .. maxIterations, it is maxIterations if
\* and only if no iterate the loop computed (the start value and every value
\* an update produced) lies beyond the radius, and a result below
\* maxIterations is the number of updates before the first such iterate.
C5_Original ==
    e_pc = "done" =>
        /\ iter \in 0 .. maxIter
        /\ iter = maxIter <=> \A k \in 1 .. Len(hist) : ~Beyond(hist[k], calc)
        /\ iter < maxIter =>
              /\ Beyond(hist[iter + 1], calc)
              /\ \A k \in 1 .. iter : ~Beyond(hist[k], calc)

\* C5 amended: the result is in 0 .. maxIterations and counts the updates
\* applied; it is maxIterations if and only if none of the iterates the loop
\* TESTED lies beyond the radius, and these are the start value and the
\* values of the first maxIterations - 1 updates only (the value of the last
\* update is never tested, and nothing is with maxIterations = 0); a result
\* below maxIterations is the number of updates before the first iterate
\* beyond the radius.
C5_Amended ==
    e_pc = "done" =>
        /\ iter \in 0 .. maxIter
        /\ Len(hist) = iter + 1
        /\ iter = maxIter <=>
              \A k \in 1 .. Min(Len(hist), maxIter) : ~Beyond(hist[k], calc)
        /\ iter < maxIter =>
              /\ Beyond(hist[iter + 1], calc)
              /\ \A k \in 1 .. iter : ~Beyond(hist[k], calc)

C5_Witness ==
    /\ e_pc = "done"
    /\ ~IsMandelbrotMode(sketch)
    /\ maxIter = MaxIterBound /\ iter = maxIter
    /\ Beyond(hist[Len(hist)], calc)
    /\ \A k \in 1 .. maxIter : ~Beyond(hist[k], calc)

\* C6: in Mandelbrot mode the cell at the origin gets maxIterations, whatever
\* maxIterations (0 included) and whatever the radius (0 included).
C6_OriginInSet ==
    (e_pc = "done" /\ IsMandelbrotMode(sketch) /\ x = 0 /\ y = 0) => iter = maxIter

C6_Witness ==
    /\ e_pc = "done" /\ IsMandelbrotMode(sketch)
    /\ x = 0 /\ y = 0
    /\ calc = 0
    /\ maxIter = maxIterations /\ iter = maxIterations
    /\ Len(hist) = maxIterations + 1

\* What is left of the loop of a cell: the passes it can still make.
EvalLeft == IF e_pc = "loop" THEN maxIter - iter + 1 ELSE 0

\* What is left of the sweep of a frame: the steps of the two for loops.
SweepLeft ==
    IF s_pc = "sweep" THEN (height - j) * (width + 1) + (width - i) + 1 ELSE 0

\* C8: the loop of a cell never applies more than maxIterations updates and
\* always ends, whatever the start value and the constant: it is never stuck
\* before it is done and every pass leaves fewer passes to make; likewise the
\* sweep of a frame is never stuck and every step of it leaves fewer steps,
\* and when it has ended every one of the width * height cells has been
\* visited and holds a result.
C8_Terminates ==
    /\ [](e_pc # "off" => iter <= maxIter /\ Len(hist) <= maxIter + 1)
    /\ [](e_pc = "loop" => EvalLeft > 0 /\ ENABLED NextEval)
    /\ [][EvalLeft' < EvalLeft \/ (EvalLeft' = 0 /\ EvalLeft = 0)]_vars
    /\ [](s_pc = "sweep" => SweepLeft > 0 /\ ENABLED NextSweep)
    /\ [][SweepLeft' < SweepLeft \/ (SweepLeft' = 0 /\ SweepLeft = 0)]_vars
    /\ [](s_pc = "done" =>
            /\ j = height
            /\ \A cy \in 0 .. height - 1 : \A cx \in 0 .. width - 1 :
                  /\ writes[XYof(cx, cy, width, serpentine)] >= 1
                  /\ iters[XYof(cx, cy, width, serpentine)] \in 0 .. maxIter)

C8_Witness ==
    /\ s_pc = "done"
    /\ width = matrixWidth /\ height = matrixHeight
    /\ j = height
    /\ \A n \in DOMAIN iters : iters[n] \in 0 .. maxIter

\* The pass of loop() as the specification orders it.
PaletteFirst == <<"blend", "target", "resize", "mandel", "show">>

\* The passes of loop() of the two sketches with palette steps, as they run.
PassOf(sk) ==
    IF sk = "JuliaPalette" THEN PaletteFirst
    ELSE <<"resize", "mandel", "showfps", "blend", "target", "show">>

\* The steps of the pass so far, the frame counter's aside.
StepsSoFar == SelectSeq(order, LAMBDA st : st # "showfps")

\* C9 as stated: in every sketch with the palette steps a pass of loop() runs
\* blend, target, resize, mandel, show in that order.
C9_Original ==
    HasPalette(sketch) =>
        /\ Len(StepsSoFar) <= Len(PaletteFirst)
        /\ StepsSoFar = SubSeq(PaletteFirst, 1, Len(StepsSoFar))

\* C9 amended: in Julia-palette a pass of loop() runs blend, target, resize,
\* mandel, show in that order; in Mandelbrot, the other sketch with the
\* palette steps, a pass runs resize, mandel, showfps, blend, target, show:
\* there the palette steps follow the window computation and the evaluation
\* of the pass, and precede its presentation only.
C9_Amended ==
    HasPalette(sketch) =>
        /\ Len(order) <= Len(PassOf(sketch))
        /\ order = SubSeq(PassOf(sketch), 1, Len(order))
        /\ pc = PassOf(sketch)[(Len(order) % Len(PassOf(sketch))) + 1]
              \/ (order = <<>> /\ pc = PassOf(sketch)[1])
        /\ (now > 0 /\ pc = PassOf(sketch)[1]) => order = PassOf(sketch)

C9_Witness ==
    /\ sketch = "Mandelbrot"
    /\ now = 2 * FrameMs
    /\ order = <<"resize", "mandel", "showfps", "blend", "target", "show">>
    /\ currentPalette # PurePalette(RainbowPalette)

\* resize() has been called.
Resized == now > 0 \/ \E n \in 1 .. Len(order) : order[n] = "resize"

\* C10: after every call of resize(), whatever sin() returned, xmax > xmin,
\* ymax > ymin, dx = (xmax - xmin) / matrixWidth and
\* dy = (ymax - ymin) / matrixHeight; in the zooming sketch zoOm lies in
\* 200 .. 5200 and the half extent of the window is strictly positive.
C10_WindowValid ==
    Resized =>
        /\ xmax > xmin
        /\ ymax > ymin
        /\ dx = RoundDiv(xmax - xmin, matrixWidth)
        /\ dy = RoundDiv(ymax - ymin, matrixHeight)
        /\ sketch = "Mandelbrot" =>
              /\ zoOm >= Fx(200, 1) /\ zoOm <= Fx(5200, 1)
              /\ xmax - xmin = 2 * HalfExtent(zoOm)
              /\ HalfExtent(zoOm) > 0

C10_Witness ==
    /\ sketch = "Mandelbrot"
    /\ Resized
    /\ pc = "mandel"
    /\ zoOm = Fx(5200, 1)
    /\ xmax > xmin /\ dx > 0

\* mandel() has returned in the current pass of loop() and nothing has run since.
JustSwept == s_pc = "done" /\ pc = Following(sketch, "mandel")

\* C11: in every frame the sweep writes each of the width * height cells of
\* the frame buffer exactly once (none skipped, none twice, no index outside
\* the buffer); a sweep is under way only inside mandel(), so FastLED.show()
\* never runs on a partly swept buffer; and what mandel() leaves for
\* presentation is what the same sweep gives on a dark buffer with no earlier
\* results, so nothing written in an earlier frame is presented in a later one.
C11_WrittenOncePerFrame ==
    /\ stray = {}
    /\ \A n \in DOMAIN writes : writes[n] <= 1
    /\ s_pc = "sweep" => pc = "mandel"
    /\ s_pc = "done" => \A n \in DOMAIN writes : writes[n] = 1
    /\ pc = "show" => (s_pc = "done" /\ \A n \in DOMAIN writes : writes[n] = 1)
    /\ JustSwept =>
          /\ iters = SweepIters(FrameCfg, NoIters)
          /\ leds = AfterSweep(SweepLeds(FrameCfg,
                                         SweepMapped(FrameCfg, iters, NoMapped),
                                         BlackFrame),
                               FrameCfg)

C11_Witness ==
    /\ pc = "show" /\ s_pc = "done"
    /\ sketch = "Julia"
    /\ now = 2 * FrameMs
    /\ \A n \in DOMAIN writes : writes[n] = 1
    /\ \E n \in DOMAIN leds : leds[n] # Black

\* C12: mandel() run twice on the same window, additive constant, iteration
\* bound and radius gives the same iteration count in every cell, whatever
\* the frame buffer held before each run (dark, lit, or the frame of the run
\* before); and no step of mandel() changes xmin, xmax, ymin, ymax, dx, dy,
\* reAl, imAg, maxIterations or maxCalc, so the second run does read the
\* inputs of the first.
C12_Idempotent ==
    /\ [](\A k1 \in DOMAIN runs : \A k2 \in DOMAIN runs :
              runs[k1][1] = runs[k2][1] => runs[k1][2] = runs[k2][2])
    /\ [](\A k1 \in DOMAIN runs : \A k2 \in DOMAIN runs : runs[k1][1] = runs[k2][1])
    /\ [](\A k \in DOMAIN runs : \A n \in DOMAIN runs[k][2] :
              runs[k][2][n] \in 0 .. maxIter)
    /\ [][UNCHANGED <<xmin, xmax, ymin, ymax, dx, dy, reAl, imAg, maxIter, calc>>]_vars

C12_Witness ==
    /\ s_pc = "done"
    /\ Len(runs) = 2
    /\ runs[1] = runs[2]
    /\ runs[2][1] = FrameInputs
    /\ sketch = "JuliaPalette"
    /\ width = matrixWidth /\ height = matrixHeight
    /\ \E n \in DOMAIN iters : runs[2][2][n] < maxIter
    /\ \E n \in DOMAIN iters : runs[2][2][n] = maxIter

\* C13: in every sketch, whenever FastLED.show() is about to run on a swept
\* frame, every cell whose iteration count of the frame is maxIterations
\* holds black.
C13_InSetBlackAtShow ==
    (pc = "show" /\ now > 0) =>
        \A n \in DOMAIN leds : iters[n] = maxIter => leds[n] = Black

\* The same in the three sketches whose mandel() does not call blur2d: it holds.
InSetBlackWithoutBlur ==
    (pc = "show" /\ now > 0 /\ sketch # "Mandelbrot") =>
        \A n \in DOMAIN leds : iters[n] = maxIter => leds[n] = Black

RECURSIVE RefLoop(_, _, _, _, _, _, _)
\* The iteration the sketches' header comment describes, from (ra, rb) with n
\* passes made: stop when the squared magnitude is beyond r, else
\* z = z^2 + c, for at most `bound` passes.
RefLoop(ra, rb, n, cx, cy, bound, r) ==
    IF ~(n < bound) THEN n
    ELSE IF FMul(ra, ra) + FMul(rb, rb) > r THEN n
    ELSE CHOOSE v \in {RefLoop(na, nb, n + 1, cx, cy, bound, r) :
                          na \in {FMul(ra, ra) - FMul(rb, rb) + cx},
                          nb \in {FMul(2 * ra, rb) + cy}} : TRUE

\* The documented iteration: the initial value of z is 0.
Reference(cx, cy, bound, r) == RefLoop(0, 0, 0, cx, cy, bound, r)

\* C14: the Mandelbrot sketches start at z = c (a = x, b = y), not at z = 0;
\* for every coordinate, every bound N >= 0 and every non-negative radius
\* their count is the count of the documented iteration from z = 0 with bound
\* N + 1, minus 1, so a cell is in-set for the one exactly when it is for the
\* other.
C14_StartAtC ==
    (e_pc = "done" /\ IsMandelbrotMode(sketch)) =>
        /\ hist[1] = <<x, y>>
        /\ iter = Reference(x, y, maxIter + 1, calc) - 1
        /\ iter = maxIter <=> Reference(x, y, maxIter + 1, calc) = maxIter + 1

C14_Witness ==
    /\ e_pc = "done" /\ IsMandelbrotMode(sketch)
    /\ x = Fx(-1, 2) /\ y = Fx(1, 1)
    /\ maxIter = maxIterations /\ calc = maxCalc
    /\ iter > 1 /\ iter < maxIter
    /\ Reference(x, y, maxIter + 1, calc) = iter + 1

====
